---- MODULE Spec2Model ----
(***************************************************************************)
(* Model of tutorial_poc.py: the SlideDeckAIClient HTTP probe and its CLI  *)
(* driver.  The network is the environment: every request the client       *)
(* issues is answered by an HTTP response (status, body) or by an          *)
(* exception raised inside the requests library.  Python indices are       *)
(* 0-based, TLA+ sequences 1-based: sys.argv[k] is sys_argv[k + 1].        *)
(***************************************************************************)
EXTENDS Integers, Sequences, FiniteSets, TLC

VARIABLES
    entry,        \* which public entry point this run exercises
    sys_argv,     \* sys.argv of the process (program name first)
    listening,    \* environment: is anything listening at the target
    base_url,     \* self.base_url
    pc,           \* control location of the run
    reqLog,       \* history: every request handed to self.session, in order
    health,       \* check_health's return value (test_homepage local `health`)
    healthOut,    \* history: what the network answered to GET /health
    result,       \* get_page's return value (test_homepage local `result`)
    resultOut,    \* history: what the network answered to that GET
    endpoint_i,   \* position of the `for endpoint in endpoints` loop
    epHist,       \* history: r["status"] of each well-known-path probe
    main_result,  \* main's local `result` (test_homepage's return value)
    prompt,       \* generate_slide_deck's argument `prompt`
    gen_i,        \* position of the `for endpoint in api_endpoints` loop
    genHist,      \* history: what the network answered to each POST
    genRet,       \* generate_slide_deck's return value
    escaped       \* exception that left a public operation, or "none"

vars == <<entry, sys_argv, listening, base_url, pc, reqLog, health, healthOut,
          result, resultOut, endpoint_i, epHist, main_result, prompt, gen_i,
          genHist, genRet, escaped>>

(***************************************************************************)
(* Bounds and program constants                                            *)
(***************************************************************************)
MaxPromptWords == 2

HTTP_OK == 200

POST_TIMEOUT == 30

DEFAULT_URL == "http://localhost:8501"

PROG == "tutorial_poc.py"

endpoints == <<"/_stcore/health", "/robots.txt", "/favicon.ico">>

api_endpoints ==
    <<"/api/generate", "/api/slide", "/api/v1/generate",
      "/api/generate_slides", "/generate">>

HelpFlags == {"--help", "-h"}

NO_ENDPOINT_MESSAGE == "No API endpoint found"

CONNECT_MESSAGE == "Could not connect to server"

(***************************************************************************)
(* The environment: targets, responses, exceptions                         *)
(***************************************************************************)
\* Base URLs given on the command line or to the constructor; the last one
\* is a prompt passed where the URL belongs (usage line "<prompt>").
Urls == {"http://localhost:8501", "http://localhost:9/", "slides"}

StatusCodes == {200, 201, 404}

Bodies == {"{}", "[1]", "<html>"}

Word(k) == CASE k = 1 -> "make" [] k = 2 -> "slides" [] OTHER -> "now"

PromptWords(n) == [k \in 1..n |-> Word(k)]

ArgvSet ==
    {<<PROG>>}
      \cup {<<PROG, a>> : a \in HelpFlags \cup Urls}
      \cup {<<PROG, a>> \o PromptWords(n) :
                a \in HelpFlags \cup Urls, n \in 1..MaxPromptWords}

\* Subclass relation of the exception classes a request can raise.
ExcParents(c) ==
    CASE c = "ConnectTimeout"   -> {"ConnectionError", "Timeout"}
      [] c = "ReadTimeout"      -> {"Timeout"}
      [] c = "ConnectionError"  -> {"RequestException"}
      [] c = "Timeout"          -> {"RequestException"}
      [] c = "MissingSchema"    -> {"RequestException"}
      [] c = "JSONDecodeError"  -> {"RequestException"}
      [] c = "RequestException" -> {"Exception"}
      [] c = "Exception"        -> {"BaseException"}
      [] OTHER                  -> {}

RECURSIVE IsInstance(_, _)
IsInstance(c, cls) ==
    \/ c = cls
    \/ \E p \in ExcParents(c) : IsInstance(p, cls)

\* str(e): the exception's own text, which names the exception's cause.
StrOf(c) == "requests: " \o c

Responses == [kind : {"response"}, status : StatusCodes, body : Bodies, exc : {"none"}]

Fault(c) == [kind |-> "fault", status |-> 0, body |-> "", exc |-> c]

\* No request issued yet.
NoOutcome == [kind |-> "unset", status |-> 0, body |-> "", exc |-> "none"]

HasScheme(u) == Len(u) >= 7 /\ SubSeq(u, 1, 7) = "http://"

\* What self.session.get / self.session.post can produce for a target.
Outcomes(u, up) ==
    IF ~HasScheme(u) THEN {Fault("MissingSchema")}
    ELSE IF ~up THEN {Fault("ConnectionError")}
    ELSE Responses \cup
         {Fault(c) : c \in {"ConnectionError", "ConnectTimeout", "ReadTimeout"}}

\* response.json(): the decoded value, or the exception it raises.
NoData == [t |-> "absent", n |-> 0]

ResponseJson(body) ==
    CASE body = "{}"  -> [raised |-> "none", value |-> [t |-> "dict", n |-> 0]]
      [] body = "[1]" -> [raised |-> "none", value |-> [t |-> "list", n |-> 1]]
      [] OTHER        -> [raised |-> "JSONDecodeError", value |-> NoData]

(***************************************************************************)
(* SlideDeckAIClient                                                       *)
(***************************************************************************)
RECURSIVE Rstrip(_)
Rstrip(u) ==
    IF Len(u) > 0 /\ SubSeq(u, Len(u), Len(u)) = "/"
    THEN Rstrip(SubSeq(u, 1, Len(u) - 1))
    ELSE u

\* One call of self.session.get / self.session.post: json and timeout are
\* <<>> when the call passes none.
Request(method, path, json, timeout) ==
    [method |-> method, url |-> base_url \o path, json |-> json, timeout |-> timeout]

Get(path) == Request("GET", path, <<>>, <<>>)

NoHealth == [status |-> "unset", code |-> 0, data |-> NoData, message |-> "", exc |-> "none"]

\* check_health: the value returned for network outcome o; status "raised"
\* stands for an exception no except clause caught.
CheckHealth_OnlyConnectionError(o) ==
    LET raised == IF o.kind = "fault" THEN o.exc ELSE ResponseJson(o.body).raised
    IN  IF raised = "none"
        THEN [NoHealth EXCEPT !.status = "ok", !.code = o.status,
                              !.data = ResponseJson(o.body).value]
        ELSE IF IsInstance(raised, "ConnectionError")
        THEN [NoHealth EXCEPT !.status = "error", !.message = CONNECT_MESSAGE]
        ELSE [NoHealth EXCEPT !.status = "raised", !.exc = raised]

CheckHealth_NoDedicatedMessage(o) ==
    LET raised == IF o.kind = "fault" THEN o.exc ELSE ResponseJson(o.body).raised
    IN  IF raised = "none"
        THEN [NoHealth EXCEPT !.status = "ok", !.code = o.status,
                              !.data = ResponseJson(o.body).value]
        ELSE IF IsInstance(raised, "Exception")
        THEN [NoHealth EXCEPT !.status = "error", !.message = StrOf(raised)]
        ELSE [NoHealth EXCEPT !.status = "raised", !.exc = raised]

CheckHealth(o) ==
    LET raised == IF o.kind = "fault" THEN o.exc ELSE ResponseJson(o.body).raised
    IN  IF raised = "none"
        THEN [NoHealth EXCEPT !.status = "ok", !.code = o.status,
                              !.data = ResponseJson(o.body).value]
        ELSE IF IsInstance(raised, "ConnectionError")
        THEN [NoHealth EXCEPT !.status = "error", !.message = CONNECT_MESSAGE]
        ELSE IF IsInstance(raised, "Exception")
        THEN [NoHealth EXCEPT !.status = "error", !.message = StrOf(raised)]
        ELSE [NoHealth EXCEPT !.status = "raised", !.exc = raised]

NoPage == [status |-> "unset", code |-> 0, content_length |-> 0, message |-> "", exc |-> "none"]

\* get_page: the body is measured, never decoded.  (The header map is copied
\* into the result and read nowhere; it is left out.)
GetPage(o) ==
    IF o.kind = "response"
    THEN [NoPage EXCEPT !.status = "ok", !.code = o.status,
                        !.content_length = Len(o.body)]
    ELSE IF IsInstance(o.exc, "Exception")
    THEN [NoPage EXCEPT !.status = "error", !.message = StrOf(o.exc)]
    ELSE [NoPage EXCEPT !.status = "raised", !.exc = o.exc]

(***************************************************************************)
(* test_homepage                                                           *)
(***************************************************************************)
\* Where test_homepage goes after `health = self.check_health()`.
AfterHealth(h) ==
    CASE h.status = "ok"     -> "th_home"
      [] h.status = "raised" -> "crashed"
      [] OTHER               -> "th_return_false"

\* Where it goes after `result = self.get_page("/")`.
AfterHomepage(r) ==
    CASE r.status = "ok"     -> "th_endpoints"
      [] r.status = "raised" -> "crashed"
      [] OTHER               -> "th_return_false"

\* Where it goes after probing endpoints[i]: both branches only print.
AfterEndpoint_Fatal(r, i) ==
    CASE r.status = "raised" -> "crashed"
      [] r.status # "ok"     -> "th_return_false"
      [] i < Len(endpoints)  -> "th_endpoints"
      [] OTHER               -> "th_return_true"

AfterEndpoint(r, i) ==
    CASE r.status = "raised" -> "crashed"
      [] i < Len(endpoints)  -> "th_endpoints"
      [] OTHER               -> "th_return_true"

\* The caller test_homepage returns to.
ReturnSite == IF entry = "main" THEN "main_after" ELSE "done"

\* Effect of leaving test_homepage at label l (a return, or an exception
\* e passing through), or of staying in it.
Leave(l, e) ==
    /\ pc' = CASE l = "th_return_false" -> ReturnSite
               [] l = "th_return_true"  -> ReturnSite
               [] OTHER                 -> l
    /\ main_result' = CASE l = "th_return_false" -> [success |-> FALSE]
                        [] l = "th_return_true"  -> [success |-> TRUE]
                        [] OTHER                 -> main_result
    /\ escaped' = IF l = "crashed" THEN e ELSE escaped

HealthStep ==
    /\ pc = "th_health"
    /\ \E o \in Outcomes(base_url, listening) :
         /\ reqLog' = Append(reqLog, Get("/health"))
         /\ healthOut' = o
         /\ health' = CheckHealth(o)
         /\ Leave(AfterHealth(health'), health'.exc)
    /\ UNCHANGED <<entry, sys_argv, listening, base_url, result, resultOut,
                   endpoint_i, epHist, prompt, gen_i, genHist, genRet>>

HomepageStep ==
    /\ pc = "th_home"
    /\ \E o \in Outcomes(base_url, listening) :
         /\ reqLog' = Append(reqLog, Get("/"))
         /\ resultOut' = o
         /\ result' = GetPage(o)
         /\ Leave(AfterHomepage(result'), result'.exc)
    /\ endpoint_i' = 1
    /\ UNCHANGED <<entry, sys_argv, listening, base_url, health, healthOut,
                   epHist, prompt, gen_i, genHist, genRet>>

EndpointStep ==
    /\ pc = "th_endpoints"
    /\ \E o \in Outcomes(base_url, listening) :
         LET r == GetPage(o) IN
         /\ reqLog' = Append(reqLog, Get(endpoints[endpoint_i]))
         /\ epHist' = Append(epHist, r.status)
         /\ Leave(AfterEndpoint(r, endpoint_i), r.exc)
    /\ endpoint_i' = endpoint_i + 1
    /\ UNCHANGED <<entry, sys_argv, listening, base_url, health, healthOut,
                   result, resultOut, prompt, gen_i, genHist, genRet>>

(***************************************************************************)
(* generate_slide_deck                                                     *)
(***************************************************************************)
NoGen == [success |-> FALSE, data |-> NoData, message |-> "unset"]

NoStep == [ctl |-> "continue", data |-> NoData, caught |-> "none", exc |-> "none"]

\* One pass of the loop body for network outcome o: ctl says how the body
\* ends, caught names an exception an except clause handled.
GenerateIteration_NoBreak(o) ==
    IF o.kind = "fault"
    THEN IF IsInstance(o.exc, "Exception")
         THEN [NoStep EXCEPT !.caught = o.exc]
         ELSE [NoStep EXCEPT !.ctl = "raise", !.exc = o.exc]
    ELSE IF o.status = HTTP_OK
    THEN LET j == ResponseJson(o.body) IN
         IF j.raised = "none"
         THEN [NoStep EXCEPT !.ctl = "return", !.data = j.value]
         ELSE [NoStep EXCEPT !.caught = j.raised]
    ELSE NoStep

GenerateIteration_StopOnStatus(o) ==
    IF o.kind = "fault"
    THEN IF IsInstance(o.exc, "ConnectionError")
         THEN [NoStep EXCEPT !.ctl = "break", !.caught = o.exc]
         ELSE IF IsInstance(o.exc, "Exception")
         THEN [NoStep EXCEPT !.caught = o.exc]
         ELSE [NoStep EXCEPT !.ctl = "raise", !.exc = o.exc]
    ELSE IF o.status = HTTP_OK
    THEN LET j == ResponseJson(o.body) IN
         IF j.raised = "none"
         THEN [NoStep EXCEPT !.ctl = "return", !.data = j.value]
         ELSE [NoStep EXCEPT !.caught = j.raised]
    ELSE [NoStep EXCEPT !.ctl = "break"]

GenerateIteration_AnySuccessStatus(o) ==
    IF o.kind = "fault"
    THEN IF IsInstance(o.exc, "ConnectionError")
         THEN [NoStep EXCEPT !.ctl = "break", !.caught = o.exc]
         ELSE IF IsInstance(o.exc, "Exception")
         THEN [NoStep EXCEPT !.caught = o.exc]
         ELSE [NoStep EXCEPT !.ctl = "raise", !.exc = o.exc]
    ELSE IF o.status >= HTTP_OK /\ o.status < HTTP_OK + 100
    THEN LET j == ResponseJson(o.body) IN
         IF j.raised = "none"
         THEN [NoStep EXCEPT !.ctl = "return", !.data = j.value]
         ELSE [NoStep EXCEPT !.caught = j.raised]
    ELSE NoStep

GenerateIteration(o) ==
    IF o.kind = "fault"
    THEN IF IsInstance(o.exc, "ConnectionError")
         THEN [NoStep EXCEPT !.ctl = "break", !.caught = o.exc]
         ELSE IF IsInstance(o.exc, "Exception")
         THEN [NoStep EXCEPT !.caught = o.exc]
         ELSE [NoStep EXCEPT !.ctl = "raise", !.exc = o.exc]
    ELSE IF o.status = HTTP_OK
    THEN LET j == ResponseJson(o.body) IN
         IF j.raised = "none"
         THEN [NoStep EXCEPT !.ctl = "return", !.data = j.value]
         ELSE [NoStep EXCEPT !.caught = j.raised]
    ELSE NoStep

\* The candidate the for loop takes up after candidate i.
NextCandidate_Retry(step, i) == IF step.caught # "none" THEN i ELSE i + 1

NextCandidate(step, i) == i + 1

Post(path) ==
    Request("POST", path, <<prompt, "None">>, <<POST_TIMEOUT>>)

GenStep ==
    /\ pc = "gen_loop"
    /\ \E o \in Outcomes(base_url, listening) :
         LET step == GenerateIteration(o)
             nxt  == NextCandidate(step, gen_i)
             over == step.ctl = "break" \/ nxt > Len(api_endpoints)
         IN
         /\ reqLog' = Append(reqLog, Post(api_endpoints[gen_i]))
         /\ genHist' = Append(genHist, o)
         /\ gen_i' = nxt
         /\ genRet' = CASE step.ctl = "return" ->
                             [success |-> TRUE, data |-> step.data, message |-> "absent"]
                        [] step.ctl # "raise" /\ over ->
                             [success |-> FALSE, data |-> NoData,
                              message |-> NO_ENDPOINT_MESSAGE]
                        [] OTHER -> genRet
         /\ pc' = CASE step.ctl = "raise"  -> "crashed"
                    [] step.ctl = "return" -> "done"
                    [] over                -> "done"
                    [] OTHER               -> "gen_loop"
         /\ escaped' = IF step.ctl = "raise" THEN step.exc ELSE escaped
    /\ UNCHANGED <<entry, sys_argv, listening, base_url, health, healthOut,
                   result, resultOut, endpoint_i, epHist, main_result, prompt>>

(***************************************************************************)
(* main, and direct use of the class                                       *)
(***************************************************************************)
RECURSIVE JoinSpaces(_)
JoinSpaces(ws) ==
    IF ws = <<>> THEN ""
    ELSE IF Len(ws) = 1 THEN ws[1]
    ELSE ws[1] \o " " \o JoinSpaces(Tail(ws))

\* SlideDeckAIClient.__init__
ClientInit(u) == Rstrip(u)

Main(args) ==
    /\ pc = "start"
    /\ entry' = "main"
    /\ sys_argv' = args
    /\ IF Len(args) > 1 /\ args[2] \in HelpFlags
       THEN /\ pc' = "exited"
            /\ UNCHANGED base_url
       ELSE /\ base_url' = ClientInit(IF Len(args) > 1 THEN args[2] ELSE DEFAULT_URL)
            /\ pc' = "th_health"
    /\ UNCHANGED <<listening, reqLog, health, healthOut, result, resultOut,
                   endpoint_i, epHist, main_result, prompt, gen_i, genHist,
                   genRet, escaped>>

\* `if result["success"]: if len(sys.argv) > 2:`
ShouldGenerate_AnyArgument(res, args) == res.success /\ Len(args) > 1

ShouldGenerate(res, args) == res.success /\ Len(args) > 2

\* test_homepage has returned to main; its frame is gone.
MainAfterHomepage ==
    /\ pc = "main_after"
    /\ IF ShouldGenerate(main_result, sys_argv)
       THEN /\ prompt' = JoinSpaces(SubSeq(sys_argv, 3, Len(sys_argv)))
            /\ gen_i' = 1
            /\ pc' = "gen_loop"
       ELSE /\ pc' = "done"
            /\ UNCHANGED <<prompt, gen_i>>
    /\ health' = NoHealth
    /\ healthOut' = NoOutcome
    /\ result' = NoPage
    /\ resultOut' = NoOutcome
    /\ endpoint_i' = 1
    /\ epHist' = <<>>
    /\ UNCHANGED <<entry, sys_argv, listening, base_url, reqLog, main_result,
                   genHist, genRet, escaped>>

\* A caller other than main builds a client ...
Construct(u) ==
    /\ pc = "start"
    /\ entry' = "client"
    /\ base_url' = ClientInit(u)
    /\ pc' = "ready"
    /\ UNCHANGED <<sys_argv, listening, reqLog, health, healthOut, result,
                   resultOut, endpoint_i, epHist, main_result, prompt, gen_i,
                   genHist, genRet, escaped>>

\* ... and calls one of its public methods.
CallCheckHealth ==
    /\ pc = "ready"
    /\ entry' = "check_health"
    /\ \E o \in Outcomes(base_url, listening) :
         /\ reqLog' = Append(reqLog, Get("/health"))
         /\ healthOut' = o
         /\ health' = CheckHealth(o)
         /\ pc' = IF health'.status = "raised" THEN "crashed" ELSE "done"
         /\ escaped' = health'.exc
    /\ UNCHANGED <<sys_argv, listening, base_url, result, resultOut, endpoint_i,
                   epHist, main_result, prompt, gen_i, genHist, genRet>>

Paths == {"/", "/robots.txt"}

CallGetPage(path) ==
    /\ pc = "ready"
    /\ entry' = "get_page"
    /\ \E o \in Outcomes(base_url, listening) :
         /\ reqLog' = Append(reqLog, Get(path))
         /\ resultOut' = o
         /\ result' = GetPage(o)
         /\ pc' = IF result'.status = "raised" THEN "crashed" ELSE "done"
         /\ escaped' = result'.exc
    /\ UNCHANGED <<sys_argv, listening, base_url, health, healthOut, endpoint_i,
                   epHist, main_result, prompt, gen_i, genHist, genRet>>

CallTestHomepage ==
    /\ pc = "ready"
    /\ entry' = "test_homepage"
    /\ pc' = "th_health"
    /\ UNCHANGED <<sys_argv, listening, base_url, reqLog, health, healthOut,
                   result, resultOut, endpoint_i, epHist, main_result, prompt,
                   gen_i, genHist, genRet, escaped>>

CallGenerate(p) ==
    /\ pc = "ready"
    /\ entry' = "generate_slide_deck"
    /\ prompt' = p
    /\ gen_i' = 1
    /\ pc' = "gen_loop"
    /\ UNCHANGED <<sys_argv, listening, base_url, reqLog, health, healthOut,
                   result, resultOut, endpoint_i, epHist, main_result, genHist,
                   genRet, escaped>>

(***************************************************************************)
(* Specification                                                           *)
(***************************************************************************)
Init ==
    /\ entry = "none"
    /\ sys_argv = <<PROG>>
    /\ listening \in BOOLEAN
    /\ base_url = ""
    /\ pc = "start"
    /\ reqLog = <<>>
    /\ health = NoHealth
    /\ healthOut = NoOutcome
    /\ result = NoPage
    /\ resultOut = NoOutcome
    /\ endpoint_i = 1
    /\ epHist = <<>>
    /\ main_result = [success |-> FALSE]
    /\ prompt = ""
    /\ gen_i = 1
    /\ genHist = <<>>
    /\ genRet = NoGen
    /\ escaped = "none"

Next ==
    \/ \E args \in ArgvSet : Main(args)
    \/ HealthStep
    \/ HomepageStep
    \/ EndpointStep
    \/ MainAfterHomepage
    \/ GenStep
    \/ \E u \in Urls : Construct(u)
    \/ CallCheckHealth
    \/ \E path \in Paths : CallGetPage(path)
    \/ CallTestHomepage
    \/ \E p \in {JoinSpaces(PromptWords(MaxPromptWords))} : CallGenerate(p)

Spec == Init /\ [][Next]_vars

(***************************************************************************)
(* Vocabulary of the properties                                            *)
(***************************************************************************)
Posts == SelectSeq(reqLog, LAMBDA q : q.method = "POST")

Gets == SelectSeq(reqLog, LAMBDA q : q.method = "GET")

Parseable200(o) ==
    o.kind = "response" /\ o.status = 200 /\ ResponseJson(o.body).raised = "none"

ConnectionFailed(o) == o.kind = "fault" /\ IsInstance(o.exc, "ConnectionError")

SweepReturned == pc = "main_after" \/ (pc = "done" /\ entry = "test_homepage")

GenReturned == pc = "done" /\ genRet.message # "unset"

ListedCandidates ==
    <<"/api/generate", "/api/slide", "/api/v1/generate",
      "/api/generate_slides", "/generate">>

WellKnownPaths == <<"/_stcore/health", "/robots.txt", "/favicon.ico">>

SweepPaths == <<"/health", "/">> \o WellKnownPaths

\* C1: the POSTs go to the five candidates in the listed order; a candidate
\* answering 200 with a JSON body is the last one POSTed and its decoded
\* body is the value returned with success; success is returned for no
\* other answer; a sweep that met only responses and failed tried all five.
C1_FirstParseableWins ==
    /\ Len(Posts) = Len(genHist)
    /\ Len(Posts) <= Len(ListedCandidates)
    /\ \A i \in 1..Len(Posts) : Posts[i].url = base_url \o ListedCandidates[i]
    /\ \A i \in 1..Len(genHist) :
         Parseable200(genHist[i]) =>
            /\ i = Len(genHist)
            /\ pc = "done"
            /\ genRet.success
            /\ genRet.data = ResponseJson(genHist[i].body).value
    /\ genRet.success =>
            /\ genHist # <<>>
            /\ Parseable200(genHist[Len(genHist)])
    /\ (GenReturned /\ ~genRet.success
          /\ \A i \in 1..Len(genHist) : genHist[i].kind = "response")
         => Len(genHist) = Len(ListedCandidates)

C1_Witness ==
    /\ GenReturned
    /\ genRet.success
    /\ Len(Posts) = 3
    /\ genHist[1].status = 404
    /\ genHist[2].status = 200 /\ genHist[2].body = "<html>"
    /\ genRet.data = [t |-> "list", n |-> 1]

\* C2 (as claimed): check_health returns ok with the response's status code
\* for every response received, whatever its body, and an error only when
\* the transport failed.
C2_OkOnAnyResponse ==
    health.status # "unset" =>
        /\ healthOut.kind = "response" =>
              health.status = "ok" /\ health.code = healthOut.status
        /\ health.status = "error" => healthOut.kind = "fault"

\* C3 (as claimed): test_homepage returns failure without probing a
\* well-known path when the health check or the homepage fetch reports an
\* error, and it is aborted by transport errors only.
C3_OnlyTransportErrorsAbort ==
    /\ (SweepReturned /\ (health.status = "error" \/ result.status = "error")) =>
          /\ ~main_result.success
          /\ Len(Gets) <= 2
          /\ epHist = <<>>
    /\ (SweepReturned /\ ~main_result.success) =>
          healthOut.kind = "fault" \/ resultOut.kind = "fault"

\* C4: a POST that fails to connect is the last request of the sweep, which
\* returns failure; with nothing listening only /api/generate is POSTed.
C4_StopsOnConnectionError ==
    /\ \A i \in 1..Len(genHist) :
         ConnectionFailed(genHist[i]) =>
            /\ i = Len(genHist)
            /\ Len(Posts) = i
            /\ pc = "done"
            /\ ~genRet.success
            /\ genRet.message = "No API endpoint found"
    /\ (GenReturned /\ ~listening /\ HasScheme(base_url)) =>
         /\ Len(Posts) = 1
         /\ Posts[1].url = base_url \o "/api/generate"

C4_Witness ==
    /\ GenReturned
    /\ ~listening
    /\ genHist = <<Fault("ConnectionError")>>
    /\ Len(Posts) = 1

\* C5 (as claimed): when the transport cannot connect, check_health and
\* get_page both return an error carrying the one dedicated message.
C5_SameConnectionReason ==
    /\ (~listening /\ healthOut = Fault("ConnectionError")) =>
          health.status = "error" /\ health.message = CONNECT_MESSAGE
    /\ (~listening /\ resultOut = Fault("ConnectionError")) =>
          result.status = "error" /\ result.message = CONNECT_MESSAGE

\* C5 (amended): when the transport cannot connect both return an error;
\* check_health carries the dedicated message, which it uses for no other
\* fault, and get_page carries the exception's own text, as for any fault.
C5_ErrorOnConnectionFailure ==
    /\ ConnectionFailed(healthOut) =>
          health.status = "error" /\ health.message = "Could not connect to server"
    /\ (health.status = "error" /\ ~ConnectionFailed(healthOut)) =>
          health.message # "Could not connect to server"
    /\ resultOut.kind = "fault" =>
          /\ result.status = "error"
          /\ result.message = StrOf(resultOut.exc)
          /\ result.message # "Could not connect to server"

C5_Witness ==
    /\ ~listening
    /\ entry = "get_page"
    /\ pc = "done"
    /\ resultOut = Fault("ConnectionError")
    /\ result.status = "error"
    /\ result.message = "requests: ConnectionError"

\* C6: once the health check and the homepage fetch have passed, the three
\* well-known paths are each requested once, in order, whatever each probe
\* reports, and test_homepage returns success.
C6_WellKnownSweepCompletes ==
    /\ pc = "th_endpoints" =>
          /\ Len(epHist) = endpoint_i - 1
          /\ endpoint_i <= Len(WellKnownPaths)
          /\ Len(Gets) = 2 + Len(epHist)
    /\ \A i \in 1..Len(Gets) :
          Gets[i] = [method |-> "GET", url |-> base_url \o SweepPaths[i],
                     json |-> <<>>, timeout |-> <<>>]
         \/ entry = "get_page"
    /\ (SweepReturned /\ health.status = "ok" /\ result.status = "ok") =>
          /\ main_result.success
          /\ Len(epHist) = Len(WellKnownPaths)
          /\ Len(Gets) = Len(SweepPaths)

C6_Witness ==
    /\ SweepReturned
    /\ main_result.success
    /\ epHist = <<"error", "ok", "error">>
    /\ Len(Gets) = 5

\* C7: no exception leaves check_health, get_page, test_homepage or
\* generate_slide_deck: every fault ends in a returned value.
C7_NothingEscapes ==
    /\ escaped = "none"
    /\ pc # "crashed"
    /\ health.status # "raised"
    /\ result.status # "raised"

C7_Witness ==
    /\ GenReturned
    /\ \E i \in 1..Len(genHist) : genHist[i] = Fault("ReadTimeout")
    /\ \E i \in 1..Len(genHist) :
          genHist[i].status = 200 /\ genHist[i].body = "<html>"

\* C8: in a run of main the requests follow the order GET /health, GET /,
\* the well-known paths, the generation POSTs; a POST happens only after
\* test_homepage returned success with arguments beyond the base URL, and
\* carries them joined by spaces; with a help flag no request is made.
MainOrder ==
    [i \in 1..(Len(SweepPaths) + Len(ListedCandidates)) |->
        IF i <= Len(SweepPaths)
        THEN <<"GET", base_url \o SweepPaths[i]>>
        ELSE <<"POST", base_url \o ListedCandidates[i - Len(SweepPaths)]>>]

C9_ContinuesThenFails ==
    /\ \A i \in 1..Len(genHist) :
         (genHist[i].kind = "response" /\ ~Parseable200(genHist[i])
            /\ i < Len(ListedCandidates)) =>
              \/ Len(Posts) > i
              \/ pc = "gen_loop" /\ gen_i = i + 1
    /\ (Len(genHist) = Len(ListedCandidates)
          /\ ~Parseable200(genHist[Len(genHist)])) =>
          /\ pc = "done"
          /\ genRet = [success |-> FALSE, data |-> NoData,
                       message |-> "No API endpoint found"]

C9_Witness ==
    /\ GenReturned
    /\ Len(Posts) = 5
    /\ \A i \in 1..5 : genHist[i].kind = "response"
    /\ genHist[2].status = 200 /\ genHist[2].body = "<html>"
    /\ genHist[4].status = 201 /\ genHist[4].body = "{}"
    /\ ~genRet.success

\* C10: no request is issued twice in a run, so a run makes at most five
\* GETs and at most five POSTs.
C10_NoRetries ==
    /\ \A i, j \in 1..Len(reqLog) :
          i # j => <<reqLog[i].method, reqLog[i].url>> # <<reqLog[j].method, reqLog[j].url>>
    /\ Len(Gets) <= 5
    /\ Len(Posts) <= 5

C10_Witness ==
    /\ entry = "main"
    /\ pc = "done"
    /\ Len(Gets) = 5
    /\ Len(Posts) = 5
    /\ \E i \in 1..5 : genHist[i] = Fault("ReadTimeout")

====
